---- MODULE Spec2Model ----
(***************************************************************************)
(* Model of intercom-go's ConversationService (conversation.go).           *)
(*                                                                         *)
(* The service is a stateless facade over a ConversationRepository.  Each  *)
(* public method builds a parameter record or a Reply payload, makes one   *)
(* synchronous repository call and returns the repository's pair.  The     *)
(* model records, for the call in progress, the method and its arguments,   *)
(* the repository calls it made, the pair the repository answered with and  *)
(* the pair handed back to the caller.                                      *)
(***************************************************************************)
EXTENDS Integers, Sequences, FiniteSets, TLC

(* ------------------------------ bounds --------------------------------- *)

MaxOps == 2          \* public operations in one run
NumConvs == 2        \* distinct conversation ids
NumAdmins == 2       \* distinct non-empty admin ids
NumUserVals == 1     \* distinct non-empty values per user identifier field
NumErrs == 2         \* distinct repository errors
MaxURLs == 1         \* longest attachment URL list
MaxPage == 1         \* largest page number

(* ------------------------------ values --------------------------------- *)

Numbered(prefix, n) == {prefix \o ToString(i) : i \in 1..n}

ConvIDs == Numbered("conv_", NumConvs)
AdminIDs == {""} \cup Numbered("admin_", NumAdmins)
IntercomIDs == {""} \cup Numbered("iu_", NumUserVals)
ExternalIDs == {""} \cup Numbered("xu_", NumUserVals)
Emails == {""} \cup Numbered("mail_", NumUserVals)
Bodies == {"", "hello"}
Orders == {"", "asc", "desc"}
Sorts == {"", "updated_at"}

\* error values; NoErr is Go's nil error
NoErr == "nil"
Errs == Numbered("err_", NumErrs)

\* []string: the nil slice and the non-nil slices are told apart
NilSlice == [isNil |-> TRUE, elems |-> <<>>]
Slice(s) == [isNil |-> FALSE, elems |-> s]
URLSeqs == UNION {[1..n -> {"url_a"}] : n \in 0..MaxURLs}
AttachmentURLLists == {NilSlice} \cup {Slice(s) : s \in URLSeqs}

\* *bool: <<>> is the nil pointer, <<b>> a pointer to b
NilBool == <<>>
Bool(b) == <<b>>

PageParams == [Page : 0..MaxPage, PerPage : {0, 20}, TotalPages : {0}]

\* the two implementations of MessagePerson
Admin == [variant : {"Admin"}, ID : AdminIDs]
User == [variant : {"User"}, ID : IntercomIDs, UserID : ExternalIDs, Email : Emails]
MessagePerson == Admin \cup User

MessageAddress(p) ==
    IF p.variant = "Admin"
    THEN [Type |-> "admin", ID |-> p.ID, UserID |-> "", Email |-> ""]
    ELSE [Type |-> "user", ID |-> p.ID, UserID |-> p.UserID, Email |-> p.Email]

\* ReplyType and its String()
CONVERSATION_COMMENT == "CONVERSATION_COMMENT"
CONVERSATION_NOTE == "CONVERSATION_NOTE"
CONVERSATION_ASSIGN == "CONVERSATION_ASSIGN"
CONVERSATION_OPEN == "CONVERSATION_OPEN"
CONVERSATION_CLOSE == "CONVERSATION_CLOSE"
ReplyType == {CONVERSATION_COMMENT, CONVERSATION_NOTE, CONVERSATION_ASSIGN,
              CONVERSATION_OPEN, CONVERSATION_CLOSE}

ReplyTypeString(t) ==
    CASE t = CONVERSATION_COMMENT -> "comment"
      [] t = CONVERSATION_NOTE -> "note"
      [] t = CONVERSATION_ASSIGN -> "assignment"
      [] t = CONVERSATION_OPEN -> "open"
      [] t = CONVERSATION_CLOSE -> "close"

\* ConversationListState
SHOW_ALL == 0
SHOW_OPEN == 1
SHOW_CLOSED == 2
SHOW_UNREAD == 3
ConversationListState == {SHOW_ALL, SHOW_OPEN, SHOW_CLOSED, SHOW_UNREAD}

\* the zero values of the composite literals
ZeroListParams ==
    [PageParams |-> [Page |-> 0, PerPage |-> 0, TotalPages |-> 0],
     Type |-> "", AdminID |-> "", IntercomUserID |-> "", UserID |-> "",
     Email |-> "", Open |-> NilBool, Unread |-> NilBool, DisplayAs |-> "",
     Order |-> "", Sort |-> "", State |-> ""]

ZeroReply ==
    [Type |-> "", ReplyType |-> "", Body |-> "", AttachmentURLs |-> NilSlice,
     AdminID |-> "", IntercomID |-> "", UserID |-> "", Email |-> "",
     AssigneeID |-> ""]

\* results of the repository, abstracted to the fields that tell a zero
\* value from a populated one
ZeroConversation == [ID |-> ""]
Conversation == {ZeroConversation} \cup [ID : ConvIDs]
ZeroConversationList == [Conversations |-> <<>>]
ConversationList == {ZeroConversationList} \cup {[Conversations |-> <<c>>] : c \in [ID : ConvIDs]}

(* ------------------------ repository collaborator ---------------------- *)

\* one call into the ConversationRepository
RepoCall(kind, id, arg) == [kind |-> kind, id |-> id, arg |-> arg]
NoArg == "none"

\* the repository is opaque: it may answer any result with any error
ListResponses == [res : ConversationList, err : {NoErr} \cup Errs]
ConversationResponses == [res : Conversation, err : {NoErr} \cup Errs]

(* --------------------------- public methods ---------------------------- *)
(* Each method is an operator of its arguments and of r, the pair the      *)
(* repository answers its call with; it yields the repository calls made   *)
(* and the pair returned to the caller.                                    *)

\* ListAll that calls list a second time when the first call failed
ListAll_retry(pageParams, r) ==
    LET c == RepoCall("list", "", [ZeroListParams EXCEPT !.PageParams = pageParams])
    IN [calls |-> IF r.err # NoErr THEN <<c, c>> ELSE <<c>>, ret |-> r]

ListAll(pageParams, r) ==
    [calls |-> <<RepoCall("list", "", [ZeroListParams EXCEPT !.PageParams = pageParams])>>,
     ret |-> r]

\* ListByAdmin whose SHOW_CLOSED branch repeats the SHOW_OPEN pointer
ListByAdmin_closedOpenTrue(adminID, orderBy, sort, state, pageParams, r) ==
    LET p0 == [ZeroListParams EXCEPT !.PageParams = pageParams,
                                     !.Type = "admin",
                                     !.AdminID = adminID,
                                     !.Order = orderBy,
                                     !.Sort = sort]
        p1 == IF state = SHOW_OPEN
              THEN [p0 EXCEPT !.Open = Bool(TRUE), !.State = "open"]
              ELSE p0
        p2 == IF state = SHOW_CLOSED
              THEN [p1 EXCEPT !.Open = Bool(TRUE), !.State = "closed"]
              ELSE p1
    IN [calls |-> <<RepoCall("list", "", p2)>>, ret |-> r]

ListByAdmin(adminID, orderBy, sort, state, pageParams, r) ==
    LET p0 == [ZeroListParams EXCEPT !.PageParams = pageParams,
                                     !.Type = "admin",
                                     !.AdminID = adminID,
                                     !.Order = orderBy,
                                     !.Sort = sort]
        p1 == IF state = SHOW_OPEN
              THEN [p0 EXCEPT !.Open = Bool(TRUE), !.State = "open"]
              ELSE p0
        p2 == IF state = SHOW_CLOSED
              THEN [p1 EXCEPT !.Open = Bool(FALSE), !.State = "closed"]
              ELSE p1
    IN [calls |-> <<RepoCall("list", "", p2)>>, ret |-> r]

\* ListByUser that sets Unread for every state but SHOW_ALL
ListByUser_unreadNotAll(user, state, pageParams, r) ==
    LET p0 == [ZeroListParams EXCEPT !.PageParams = pageParams,
                                     !.Type = "user",
                                     !.IntercomUserID = user.ID,
                                     !.UserID = user.UserID,
                                     !.Email = user.Email]
        p1 == IF state # SHOW_ALL
              THEN [p0 EXCEPT !.Unread = Bool(TRUE)]
              ELSE p0
    IN [calls |-> <<RepoCall("list", "", p1)>>, ret |-> r]

ListByUser(user, state, pageParams, r) ==
    LET p0 == [ZeroListParams EXCEPT !.PageParams = pageParams,
                                     !.Type = "user",
                                     !.IntercomUserID = user.ID,
                                     !.UserID = user.UserID,
                                     !.Email = user.Email]
        p1 == IF state = SHOW_UNREAD
              THEN [p0 EXCEPT !.Unread = Bool(TRUE)]
              ELSE p0
    IN [calls |-> <<RepoCall("list", "", p1)>>, ret |-> r]

\* Find that swallows the repository's error
Find_swallowErr(id, r) ==
    [calls |-> <<RepoCall("find", id, NoArg)>>, ret |-> [res |-> r.res, err |-> NoErr]]

Find(id, r) == [calls |-> <<RepoCall("find", id, NoArg)>>, ret |-> r]

\* MarkRead that fills in the conversation id whatever the repository returned
MarkRead_fillsID(id, r) ==
    [calls |-> <<RepoCall("read", id, NoArg)>>, ret |-> [res |-> [ID |-> id], err |-> r.err]]

\* MarkRead that goes through the repository's find
MarkRead_callsFind(id, r) == [calls |-> <<RepoCall("find", id, NoArg)>>, ret |-> r]

MarkRead(id, r) == [calls |-> <<RepoCall("read", id, NoArg)>>, ret |-> r]

\* reply without the admin/user branch: both identity slots are filled
reply_noBranch(id, author, replyType, body, attachmentURLs, r) ==
    LET addr == MessageAddress(author)
        reply0 == [ZeroReply EXCEPT !.Type = addr.Type,
                                    !.ReplyType = ReplyTypeString(replyType),
                                    !.Body = body,
                                    !.AttachmentURLs = attachmentURLs,
                                    !.AdminID = addr.ID,
                                    !.IntercomID = addr.ID,
                                    !.UserID = addr.UserID,
                                    !.Email = addr.Email]
    IN [calls |-> <<RepoCall("reply", id, reply0)>>, ret |-> r]

\* reply whose user branch takes UserID from the address's ID
reply_userIDFromID(id, author, replyType, body, attachmentURLs, r) ==
    LET addr == MessageAddress(author)
        reply0 == [ZeroReply EXCEPT !.Type = addr.Type,
                                    !.ReplyType = ReplyTypeString(replyType),
                                    !.Body = body,
                                    !.AttachmentURLs = attachmentURLs]
        reply1 == IF addr.Type = "admin"
                  THEN [reply0 EXCEPT !.AdminID = addr.ID]
                  ELSE [reply0 EXCEPT !.IntercomID = addr.ID,
                                      !.UserID = addr.ID,
                                      !.Email = addr.Email]
    IN [calls |-> <<RepoCall("reply", id, reply1)>>, ret |-> r]

reply(id, author, replyType, body, attachmentURLs, r) ==
    LET addr == MessageAddress(author)
        reply0 == [ZeroReply EXCEPT !.Type = addr.Type,
                                    !.ReplyType = ReplyTypeString(replyType),
                                    !.Body = body,
                                    !.AttachmentURLs = attachmentURLs]
        reply1 == IF addr.Type = "admin"
                  THEN [reply0 EXCEPT !.AdminID = addr.ID]
                  ELSE [reply0 EXCEPT !.IntercomID = addr.ID,
                                      !.UserID = addr.UserID,
                                      !.Email = addr.Email]
    IN [calls |-> <<RepoCall("reply", id, reply1)>>, ret |-> r]

Reply(id, author, replyType, body, r) ==
    reply(id, author, replyType, body, NilSlice, r)

ReplyWithAttachmentURLs(id, author, replyType, body, attachmentURLs, r) ==
    reply(id, author, replyType, body, attachmentURLs, r)

\* Assign with the two parties exchanged
Assign_swapped(id, assigner, assignee, r) ==
    LET assignerAddr == MessageAddress(assigner)
        assigneeAddr == MessageAddress(assignee)
        reply0 == [ZeroReply EXCEPT !.Type = "admin",
                                    !.ReplyType = ReplyTypeString(CONVERSATION_ASSIGN),
                                    !.AdminID = assigneeAddr.ID,
                                    !.AssigneeID = assignerAddr.ID]
    IN [calls |-> <<RepoCall("reply", id, reply0)>>, ret |-> r]

Assign(id, assigner, assignee, r) ==
    LET assignerAddr == MessageAddress(assigner)
        assigneeAddr == MessageAddress(assignee)
        reply0 == [ZeroReply EXCEPT !.Type = "admin",
                                    !.ReplyType = ReplyTypeString(CONVERSATION_ASSIGN),
                                    !.AdminID = assignerAddr.ID,
                                    !.AssigneeID = assigneeAddr.ID]
    IN [calls |-> <<RepoCall("reply", id, reply0)>>, ret |-> r]

Open(id, opener, r) == reply(id, opener, CONVERSATION_OPEN, "", NilSlice, r)

\* Close that sends the open kind
Close_asOpen(id, closer, r) == reply(id, closer, CONVERSATION_OPEN, "", NilSlice, r)

Close(id, closer, r) == reply(id, closer, CONVERSATION_CLOSE, "", NilSlice, r)

(* ------------------------------- state --------------------------------- *)

VARIABLES
    pc,        \* "idle": no call in progress; "returned": a method has returned
    op,        \* the public method that returned
    args,      \* its arguments
    calls,     \* the repository calls it made, in order
    repoRet,   \* the pair the repository answered with
    ret,       \* the pair the method returned to its caller
    nOps,      \* public operations started so far
    nCalls     \* repository calls made so far

vars == <<pc, op, args, calls, repoRet, ret, nOps, nCalls>>

NoArgs == [none |-> TRUE]
NoRet == [res |-> ZeroConversation, err |-> NoErr]

Init ==
    /\ pc = "idle"
    /\ op = "none"
    /\ args = NoArgs
    /\ calls = <<>>
    /\ repoRet = NoRet
    /\ ret = NoRet
    /\ nOps = 0
    /\ nCalls = 0

\* a caller may start a method when no call is in progress
CanCall == pc = "idle" /\ nOps < MaxOps

\* a caller invokes method name with arguments a; out is what the method does
\* when the repository answers r
Invoke(name, a, out, r) ==
    /\ pc' = "returned"
    /\ op' = name
    /\ args' = a
    /\ calls' = out.calls
    /\ repoRet' = r
    /\ ret' = out.ret
    /\ nOps' = nOps + 1
    /\ nCalls' = nCalls + Len(out.calls)

CallListAll ==
    /\ CanCall
    /\ \E pageParams \in PageParams, r \in ListResponses :
           Invoke("ListAll", [pageParams |-> pageParams], ListAll(pageParams, r), r)

CallListByAdmin ==
    /\ CanCall
    /\ \E adminID \in AdminIDs, orderBy \in Orders, sort \in Sorts,
          state \in ConversationListState, pageParams \in PageParams, r \in ListResponses :
           Invoke("ListByAdmin",
                  [adminID |-> adminID, orderBy |-> orderBy, sort |-> sort,
                   state |-> state, pageParams |-> pageParams],
                  ListByAdmin(adminID, orderBy, sort, state, pageParams, r), r)

CallListByUser ==
    /\ CanCall
    /\ \E user \in User, state \in ConversationListState,
          pageParams \in PageParams, r \in ListResponses :
           Invoke("ListByUser",
                  [user |-> user, state |-> state, pageParams |-> pageParams],
                  ListByUser(user, state, pageParams, r), r)

CallFind ==
    /\ CanCall
    /\ \E id \in ConvIDs, r \in ConversationResponses :
           Invoke("Find", [id |-> id], Find(id, r), r)

CallMarkRead ==
    /\ CanCall
    /\ \E id \in ConvIDs, r \in ConversationResponses :
           Invoke("MarkRead", [id |-> id], MarkRead(id, r), r)

CallReply ==
    /\ CanCall
    /\ \E id \in ConvIDs, author \in MessagePerson, replyType \in ReplyType,
          body \in Bodies, r \in ConversationResponses :
           Invoke("Reply",
                  [id |-> id, author |-> author, replyType |-> replyType, body |-> body],
                  Reply(id, author, replyType, body, r), r)

CallReplyWithAttachmentURLs ==
    /\ CanCall
    /\ \E id \in ConvIDs, author \in MessagePerson, replyType \in ReplyType,
          body \in Bodies, attachmentURLs \in AttachmentURLLists,
          r \in ConversationResponses :
           Invoke("ReplyWithAttachmentURLs",
                  [id |-> id, author |-> author, replyType |-> replyType,
                   body |-> body, attachmentURLs |-> attachmentURLs],
                  ReplyWithAttachmentURLs(id, author, replyType, body, attachmentURLs, r), r)

\* assigner and assignee are *Admin: no other person can be passed
CallAssign ==
    /\ CanCall
    /\ \E id \in ConvIDs, assigner \in Admin, assignee \in Admin,
          r \in ConversationResponses :
           Invoke("Assign",
                  [id |-> id, assigner |-> assigner, assignee |-> assignee],
                  Assign(id, assigner, assignee, r), r)

CallOpen ==
    /\ CanCall
    /\ \E id \in ConvIDs, opener \in Admin, r \in ConversationResponses :
           Invoke("Open", [id |-> id, opener |-> opener], Open(id, opener, r), r)

CallClose ==
    /\ CanCall
    /\ \E id \in ConvIDs, closer \in Admin, r \in ConversationResponses :
           Invoke("Close", [id |-> id, closer |-> closer], Close(id, closer, r), r)

\* the caller takes the returned pair; the service keeps nothing of the call
Return ==
    /\ pc = "returned"
    /\ pc' = "idle"
    /\ op' = "none"
    /\ args' = NoArgs
    /\ calls' = <<>>
    /\ repoRet' = NoRet
    /\ ret' = NoRet
    /\ UNCHANGED <<nOps, nCalls>>

Next ==
    \/ CallListAll
    \/ CallListByAdmin
    \/ CallListByUser
    \/ CallFind
    \/ CallMarkRead
    \/ CallReply
    \/ CallReplyWithAttachmentURLs
    \/ CallAssign
    \/ CallOpen
    \/ CallClose
    \/ Return

Spec == Init /\ [][Next]_vars

(* ------------------------------ properties ----------------------------- *)

Returned == pc = "returned"

\* the payload of the reply call the method made
SentReply == calls[1].arg

\* the params of the list call the method made
SentParams == calls[1].arg

MadeOneCall(kind) == Len(calls) = 1 /\ calls[1].kind = kind

IsZeroResult(res) == res = ZeroConversation \/ res = ZeroConversationList

\* the repository operation each public method is to use
RepoKindOf(name) ==
    CASE name \in {"ListAll", "ListByAdmin", "ListByUser"} -> "list"
      [] name = "Find" -> "find"
      [] name = "MarkRead" -> "read"
      [] name \in {"Reply", "ReplyWithAttachmentURLs", "Assign", "Open", "Close"} -> "reply"

TakesID(name) == name \notin {"ListAll", "ListByAdmin", "ListByUser"}

\* C1: a reply authored by an admin reaches the repository with Type
\* "admin", AdminID equal to the ID of the author's address and IntercomID, UserID and
\* Email all empty, for any reply kind, body and attachment list.
C1_AdminReplyPayload ==
    (Returned /\ op \in {"Reply", "ReplyWithAttachmentURLs"}
              /\ MessageAddress(args.author).Type = "admin")
    => /\ MadeOneCall("reply")
       /\ SentReply.Type = "admin"
       /\ SentReply.AdminID = MessageAddress(args.author).ID
       /\ SentReply.IntercomID = ""
       /\ SentReply.UserID = ""
       /\ SentReply.Email = ""

C1_Witness ==
    /\ Returned
    /\ op = "ReplyWithAttachmentURLs"
    /\ args.author.variant = "Admin"
    /\ args.author.ID # ""
    /\ args.body # ""
    /\ args.attachmentURLs.elems # <<>>
    /\ MadeOneCall("reply")
    /\ SentReply.AdminID = args.author.ID

\* C2: a reply authored by a user reaches the repository with Type "user",
\* an empty AdminID, and IntercomID, UserID and Email equal to the ID, UserID
\* and Email of the author's address, so a user field of the payload is
\* non-empty exactly when it was non-empty on the address.
C2_UserReplyPayload ==
    (Returned /\ op \in {"Reply", "ReplyWithAttachmentURLs"}
              /\ MessageAddress(args.author).Type = "user")
    => LET addr == MessageAddress(args.author) IN
       /\ MadeOneCall("reply")
       /\ SentReply.Type = "user"
       /\ SentReply.AdminID = ""
       /\ SentReply.IntercomID = addr.ID
       /\ SentReply.UserID = addr.UserID
       /\ SentReply.Email = addr.Email
       /\ (SentReply.IntercomID # "") <=> (addr.ID # "")
       /\ (SentReply.UserID # "") <=> (addr.UserID # "")
       /\ (SentReply.Email # "") <=> (addr.Email # "")

C2_Witness ==
    /\ Returned
    /\ op = "Reply"
    /\ args.author.variant = "User"
    /\ args.author.ID # ""
    /\ args.author.UserID = ""
    /\ args.author.Email # ""
    /\ MadeOneCall("reply")
    /\ SentReply.IntercomID # ""
    /\ SentReply.UserID = ""
    /\ SentReply.Email # ""

\* C3: ListByAdmin passes list params with Open = true and State = "open"
\* for SHOW_OPEN, Open = false and State = "closed" for SHOW_CLOSED, and
\* both unset for SHOW_ALL and SHOW_UNREAD; Type is always "admin" and
\* AdminID, Order, Sort and the page params are the arguments.
C3_ListByAdminParams ==
    (Returned /\ op = "ListByAdmin")
    => /\ MadeOneCall("list")
       /\ args.state = SHOW_OPEN
            => SentParams.Open = Bool(TRUE) /\ SentParams.State = "open"
       /\ args.state = SHOW_CLOSED
            => SentParams.Open = Bool(FALSE) /\ SentParams.State = "closed"
       /\ args.state \in {SHOW_ALL, SHOW_UNREAD}
            => SentParams.Open = NilBool /\ SentParams.State = ""
       /\ SentParams.Type = "admin"
       /\ SentParams.AdminID = args.adminID
       /\ SentParams.Order = args.orderBy
       /\ SentParams.Sort = args.sort
       /\ SentParams.PageParams = args.pageParams

C3_Witness ==
    /\ Returned
    /\ op = "ListByAdmin"
    /\ args.state = SHOW_CLOSED
    /\ args.adminID # ""
    /\ args.orderBy # ""
    /\ args.sort # ""
    /\ args.pageParams.Page > 0
    /\ MadeOneCall("list")
    /\ SentParams.Open = Bool(FALSE)
    /\ SentParams.State = "closed"

\* C4: ListByUser passes list params with Type "user" and IntercomUserID,
\* UserID and Email copied from the user; Unread is true exactly when the
\* state is SHOW_UNREAD, and for every other state Unread, Open and State
\* are unset.
C4_ListByUserParams ==
    (Returned /\ op = "ListByUser")
    => /\ MadeOneCall("list")
       /\ SentParams.Type = "user"
       /\ SentParams.IntercomUserID = args.user.ID
       /\ SentParams.UserID = args.user.UserID
       /\ SentParams.Email = args.user.Email
       /\ (SentParams.Unread = Bool(TRUE)) <=> (args.state = SHOW_UNREAD)
       /\ args.state # SHOW_UNREAD
            => /\ SentParams.Unread = NilBool
               /\ SentParams.Open = NilBool
               /\ SentParams.State = ""

C4_Witness ==
    /\ Returned
    /\ op = "ListByUser"
    /\ args.state = SHOW_UNREAD
    /\ args.user.ID # ""
    /\ args.user.Email # ""
    /\ MadeOneCall("list")
    /\ SentParams.Unread = Bool(TRUE)

\* C5: Open and Close reach the repository with an empty Body, no
\* attachment URLs, ReplyType "open" for Open and "close" for Close, and
\* AdminID equal to the acting admin's ID.
C5_OpenCloseEmptyBody ==
    (Returned /\ op \in {"Open", "Close"})
    => /\ MadeOneCall("reply")
       /\ SentReply.Body = ""
       /\ SentReply.AttachmentURLs.elems = <<>>
       /\ op = "Open"
            => /\ SentReply.ReplyType = ReplyTypeString(CONVERSATION_OPEN)
               /\ SentReply.AdminID = args.opener.ID
       /\ op = "Close"
            => /\ SentReply.ReplyType = ReplyTypeString(CONVERSATION_CLOSE)
               /\ SentReply.AdminID = args.closer.ID

C5_Witness ==
    /\ Returned
    /\ op = "Close"
    /\ args.closer.ID # ""
    /\ MadeOneCall("reply")
    /\ SentReply.ReplyType = "close"
    /\ SentReply.AdminID = args.closer.ID

\* C6: a public method returns a non-nil error exactly when the repository
\* returned one, the error is the repository's own, and the repository is
\* called no more than once (no retry).
C6_ErrorPropagatedUnchanged ==
    Returned
    => /\ (ret.err # NoErr) <=> (repoRet.err # NoErr)
       /\ ret.err = repoRet.err
       /\ Len(calls) <= 1

C6_Witness ==
    /\ Returned
    /\ op = "Find"
    /\ repoRet.err \in Errs
    /\ ret.err = repoRet.err

\* C7 as stated: a non-zero result is never returned together with a
\* non-nil error, whatever pair the repository returns.
C7_NoPartialResult ==
    (Returned /\ ret.err # NoErr) => IsZeroResult(ret.res)

\* C7 as amended: the caller receives the repository's result unchanged; a
\* non-nil error comes with a zero-value result whenever the repository's
\* result was zero-valued, and a non-zero result comes with a non-nil error
\* only when the repository itself returned that pair.
C7_ResultAsRepository ==
    Returned
    => /\ ret.res = repoRet.res
       /\ (repoRet.err # NoErr /\ IsZeroResult(repoRet.res))
            => (ret.err # NoErr /\ IsZeroResult(ret.res))
       /\ (ret.err # NoErr /\ ~IsZeroResult(ret.res))
            => (repoRet.err # NoErr /\ ~IsZeroResult(repoRet.res))

C7_Witness ==
    /\ Returned
    /\ op = "MarkRead"
    /\ repoRet.err \in Errs
    /\ IsZeroResult(repoRet.res)
    /\ ret.err \in Errs
    /\ IsZeroResult(ret.res)

\* C9: every public method makes at most one repository call, of the kind
\* that belongs to it (list, find, read or reply) and with the caller's
\* conversation id unchanged; over a run there are never more repository
\* calls than public operations.
C9_OneMatchingCall ==
    /\ nCalls <= nOps
    /\ Returned
         => /\ Len(calls) <= 1
            /\ \A i \in 1..Len(calls) :
                 /\ calls[i].kind = RepoKindOf(op)
                 /\ TakesID(op) => calls[i].id = args.id

C9_Witness ==
    /\ Returned
    /\ nOps = MaxOps
    /\ nCalls = nOps
    /\ op = "MarkRead"
    /\ MadeOneCall("read")
    /\ calls[1].id = args.id

\* C10: Assign reaches the repository with Type "admin", ReplyType
\* "assignment", AdminID equal to the assigner's ID, AssigneeID equal to the
\* assignee's ID, an empty Body, no attachment URLs and empty user fields;
\* Reply, ReplyWithAttachmentURLs, Open and Close never set AssigneeID.
C10_AssignPayload ==
    /\ (Returned /\ op = "Assign")
         => /\ MadeOneCall("reply")
            /\ SentReply.Type = "admin"
            /\ SentReply.ReplyType = ReplyTypeString(CONVERSATION_ASSIGN)
            /\ SentReply.AdminID = args.assigner.ID
            /\ SentReply.AssigneeID = args.assignee.ID
            /\ SentReply.Body = ""
            /\ SentReply.AttachmentURLs.elems = <<>>
            /\ SentReply.IntercomID = ""
            /\ SentReply.UserID = ""
            /\ SentReply.Email = ""
    /\ (Returned /\ op \in {"Reply", "ReplyWithAttachmentURLs", "Open", "Close"})
         => /\ MadeOneCall("reply")
            /\ SentReply.AssigneeID = ""

C10_Witness ==
    /\ Returned
    /\ op = "Assign"
    /\ args.assigner.ID # ""
    /\ args.assignee.ID # ""
    /\ args.assigner.ID # args.assignee.ID
    /\ MadeOneCall("reply")
    /\ SentReply.AdminID = args.assigner.ID
    /\ SentReply.AssigneeID = args.assignee.ID

====
